---------------------------- MODULE Spec2Model ----------------------------
(***************************************************************************)
(* The Equidity load balancer workers as one state machine.                *)
(*                                                                         *)
(* The repository holds four workers, each deployed on its own:            *)
(*   "lb"       examples/load-balancer.js   health-aware, circuit breaker  *)
(*   "multi"    examples/multi-app-config.js  down-cache, WebSocket        *)
(*   "worker"   worker.js (unnamed/part_000)  plain failover               *)
(*   "multiold" multi-app worker of unnamed/part_001                       *)
(* The variable variant says which one runs; it is fixed by Init.  Under   *)
(* "store" nothing but the health store of load-balancer.js runs, its      *)
(* operations called in any order.                                         *)
(*                                                                         *)
(* A worker is single-threaded JavaScript: code between two awaits runs    *)
(* without interleaving.  An action is therefore one such run: from the    *)
(* arrival of a request, or from the settling of the outbound call it      *)
(* awaits, to its next await or to its return.                             *)
(*                                                                         *)
(* Time is in milliseconds, as Date.now() gives it; the clock advances in  *)
(* steps of TickMs.  A call armed with a timer cannot stay in flight once  *)
(* its timer is due: the clock waits for the timer to be handled.          *)
(***************************************************************************)
EXTENDS Integers, Sequences, FiniteSets, TLC

VARIABLES
  variant,       \* which worker is deployed
  mode,          \* CONFIG.MODE of load-balancer.js
  now,           \* Date.now()
  arrivals,      \* requests received so far
  serverHealth,  \* load-balancer.js: the serverHealth map
  healthCache,   \* multi-app-config.js: the healthCache map
  req,           \* the requests being handled, one per slot
  last,          \* the request whose handler returned in the step just taken (or Idle)
  failRun,       \* history: recordFailure calls per server since its last recordSuccess
  lastOp,        \* history: the last operation that wrote the server's record
  runAtSuccess,  \* history: failRun as the last recordSuccess found it
  halfOpen,      \* history: server half-opened, no outcome recorded since
  probes,        \* history: requests dispatched to the server since it half-opened
  blockedUntil,  \* history: lastFailure + CIRCUIT_RESET_TIME of the last failure that
                 \*          left the circuit open
  applied,       \* the function applied in the step just taken, its arguments and its
                 \*          value (NotApplied when the step is a handler's)
  timers         \* the calls of fetchWithTimeout made on its own, one per slot, each
                 \*          with its timer (NoTimers when the steps are a handler's)

vars == <<variant, mode, now, arrivals, serverHealth, healthCache, req, last,
          failRun, lastOp, runAtSuccess, halfOpen, probes, blockedUntil, applied, timers>>

----------------------------------------------------------------------------
(* Bounds of the model *)

\* concurrent requests
NumSlots == 2

\* requests received in one run
MaxArrivals == 3

\* clock steps in one run
MaxTicks == 2

\* Math.random() is drawn from {0/DrawSteps, ..., (DrawSteps-1)/DrawSteps}
DrawSteps == 10

\* the health store alone: failures a record may count up to, samples it may take
MaxFailures == 4

MaxSamples == 1

\* requests that arrive at multi-app-config.js
MaxCacheArrivals == 2

Slots == 1..NumSlots

Min(a, b) == IF a <= b THEN a ELSE b

Max(a, b) == IF a >= b THEN a ELSE b

----------------------------------------------------------------------------
(* load-balancer.js: configuration *)

SERVERS ==
  << [name |-> "primary", weight |-> 80],
     [name |-> "backup",  weight |-> 20] >>

CONFIG_TIMEOUT == 5000

RETRIES == 1

SLOW_THRESHOLD == 2000

FAILURE_THRESHOLD == 3

CIRCUIT_RESET_TIME == 30000

MIN_WEIGHT == 10

MAX_WEIGHT == 90

\* worker.js (part_000): CONFIG.TIMEOUT, CONFIG.RETRIES
WORKER_TIMEOUT == 5000

WORKER_RETRIES == 1

\* the older multi-app worker (part_001): TIMEOUT, RETRIES
OLD_TIMEOUT == 5000

OLD_RETRIES == 1

\* multi-app-config.js: TIMEOUT (ms), HEALTH_CACHE_TTL (s)
TIMEOUT == 3000

HEALTH_CACHE_TTL == 30

Modes == {"failover", "weighted", "smart"}

ServerNames == {SERVERS[k].name : k \in 1..Len(SERVERS)}

\* the clock's step: half the circuit reset time
TickMs == CIRCUIT_RESET_TIME \div 2

\* Statuses a backend answers with, one for each class the workers tell apart:
\* below 500 (404: a client error, passed through as any status below 500
\* is), 500 and above
Statuses == {404, 500}

----------------------------------------------------------------------------
(* load-balancer.js: health tracking *)

\* the record getServerHealth creates on first use of a name
getServerHealth ==
  [failures |-> 0, lastFailure |-> 0, avgResponseTime |-> 0,
   requestCount |-> 0, circuitOpen |-> FALSE]

\* recordSuccess without "health.circuitOpen = false"
recordSuccess_KeepsCircuit(sh, serverName, responseTime) ==
  [sh EXCEPT ![serverName] =
     [@ EXCEPT !.requestCount = @ + 1, !.failures = 0]]

\* avgResponseTime is kept in whole milliseconds
recordSuccess(sh, serverName, responseTime) ==
  LET health == sh[serverName]
      cnt    == health.requestCount + 1
      avg    == health.avgResponseTime
                  + ((responseTime - health.avgResponseTime) \div Min(cnt, 100))
  IN  [sh EXCEPT ![serverName] =
         [health EXCEPT !.requestCount = cnt,
                        !.avgResponseTime = avg,
                        !.failures = 0,
                        !.circuitOpen = FALSE]]

\* recordFailure opening the circuit on "failures > FAILURE_THRESHOLD"
recordFailure_OpensLate(sh, serverName, t) ==
  [sh EXCEPT ![serverName] =
     [@ EXCEPT !.failures = @ + 1,
               !.lastFailure = t,
               !.circuitOpen = IF sh[serverName].failures + 1 > FAILURE_THRESHOLD
                                 THEN TRUE ELSE @]]

\* recordFailure writing back a count read before another report was made:
\* of several reports only the first is counted
recordFailure_LostUpdate(sh, serverName, t) ==
  [sh EXCEPT ![serverName] =
     [@ EXCEPT !.failures = IF @ = 0 THEN 1 ELSE @,
               !.lastFailure = t,
               !.circuitOpen = IF sh[serverName].failures >= FAILURE_THRESHOLD
                                 THEN TRUE ELSE @]]

recordFailure(sh, serverName, t) ==
  LET health == sh[serverName]
      f      == health.failures + 1
  IN  [sh EXCEPT ![serverName] =
         [health EXCEPT !.failures = f,
                        !.lastFailure = t,
                        !.circuitOpen = IF f >= FAILURE_THRESHOLD THEN TRUE ELSE @]]

\* isCircuitOpen half-opening an open circuit whatever time has passed
isCircuitOpen_NoWindow(sh, serverName, t) ==
  IF ~sh[serverName].circuitOpen
    THEN [open |-> FALSE, sh |-> sh]
    ELSE [open |-> FALSE,
          sh |-> [sh EXCEPT ![serverName] =
                    [@ EXCEPT !.circuitOpen = FALSE,
                              !.failures = FAILURE_THRESHOLD - 1]]]

\* isCircuitOpen whose half-open transition resets failures to 0
isCircuitOpen_FullReset(sh, serverName, t) ==
  IF sh[serverName].circuitOpen /\ t - sh[serverName].lastFailure >= CIRCUIT_RESET_TIME
    THEN [open |-> FALSE,
          sh |-> [sh EXCEPT ![serverName] =
                    [@ EXCEPT !.circuitOpen = FALSE, !.failures = 0]]]
    ELSE [open |-> sh[serverName].circuitOpen, sh |-> sh]

\* the value returned (open) and the map as the call leaves it (sh)
isCircuitOpen(sh, serverName, t) ==
  LET health == sh[serverName]
  IN  IF ~health.circuitOpen
        THEN [open |-> FALSE, sh |-> sh]
        ELSE IF t - health.lastFailure >= CIRCUIT_RESET_TIME
               THEN [open |-> FALSE,
                     sh |-> [sh EXCEPT ![serverName] =
                               [health EXCEPT !.circuitOpen = FALSE,
                                              !.failures = FAILURE_THRESHOLD - 1]]]
               ELSE [open |-> TRUE, sh |-> sh]

RECURSIVE Gcd(_, _)
Gcd(a, b) == IF b = 0 THEN a ELSE Gcd(b, a % b)

\* the fraction n/d in lowest terms
Reduced(w) == [n |-> w.n \div Gcd(w.n, w.d), d |-> w.d \div Gcd(w.n, w.d)]

\* calculateSmartWeight returning the weight without the final clamp
calculateSmartWeight_Unclamped(sh, server) ==
  LET health == sh[server.name]
      slow == IF health.avgResponseTime > SLOW_THRESHOLD
                THEN [n |-> server.weight * SLOW_THRESHOLD, d |-> health.avgResponseTime]
                ELSE [n |-> server.weight, d |-> 1]
      failed == IF health.failures > 0
                  THEN [n |-> slow.n, d |-> slow.d * (health.failures + 1)]
                  ELSE slow
  IN  IF health.circuitOpen THEN [n |-> MIN_WEIGHT, d |-> 1] ELSE Reduced(failed)

\* A weight is the fraction n/d: the code computes in floating point, the
\* model in exact fractions.
calculateSmartWeight(sh, server) ==
  LET health == sh[server.name]
      w0 == [n |-> server.weight, d |-> 1]
      w1 == IF health.avgResponseTime > SLOW_THRESHOLD
              THEN [n |-> w0.n * SLOW_THRESHOLD, d |-> w0.d * health.avgResponseTime]
              ELSE w0
      w2 == IF health.failures > 0
              THEN [n |-> w1.n, d |-> w1.d * (health.failures + 1)]
              ELSE w1
      w3 == IF health.circuitOpen THEN [n |-> MIN_WEIGHT, d |-> 1] ELSE w2
      lo == IF w3.n > MAX_WEIGHT * w3.d THEN [n |-> MAX_WEIGHT, d |-> 1] ELSE w3
  IN  IF lo.n < MIN_WEIGHT * lo.d THEN [n |-> MIN_WEIGHT, d |-> 1] ELSE Reduced(lo)

----------------------------------------------------------------------------
(* load-balancer.js: selection *)

\* the least common denominator of ws[k], ..., ws[Len(ws)]
RECURSIVE CommonDen(_, _)
CommonDen(ws, k) ==
  IF k > Len(ws)
    THEN 1
    ELSE LET rest == CommonDen(ws, k + 1)
         IN  (ws[k].d \div Gcd(ws[k].d, rest)) * rest

\* the weights of ws over their common denominator
Scaled(ws) ==
  [k \in 1..Len(ws) |-> ws[k].n * (CommonDen(ws, 1) \div ws[k].d)]

RECURSIVE Cumulative(_, _)
Cumulative(w, k) ==
  IF k = 0 THEN 0 ELSE w[k] + Cumulative(w, k - 1)

\* The loop "cumulative += weight; if (random <= cumulative)" of
\* selectServerWeighted and selectServerSmart, with
\* random = (u / DrawSteps) * totalWeight: the index selected (from 1).
WeightedIndex(ws, u) ==
  LET w     == Scaled(ws)
      total == Cumulative(w, Len(ws))
      hits  == {k \in 1..Len(ws) : u * total <= Cumulative(w, k) * DrawSteps}
  IN  IF hits = {} THEN 1 ELSE CHOOSE k \in hits : \A j \in hits : k <= j

\* [selected, ...servers] without the splice: the selected server stays in the rest
SelectedFirst_KeepsSelected(list, k) ==
  <<list[k]>> \o list

\* servers.splice(selectedIndex, 1), then [selected, ...servers]
SelectedFirst(list, k) ==
  <<list[k]>> \o SubSeq(list, 1, k - 1) \o SubSeq(list, k + 1, Len(list))

\* CONFIG.SERVERS.filter / map: isCircuitOpen on every server in order.
\* sh: the map afterwards; open: the names isCircuitOpen returned true for.
RECURSIVE CircuitScan(_, _, _)
CircuitScan(sh, k, t) ==
  IF k > Len(SERVERS)
    THEN [sh |-> sh, open |-> {}]
    ELSE LET c    == isCircuitOpen(sh, SERVERS[k].name, t)
             rest == CircuitScan(c.sh, k + 1, t)
         IN  [sh |-> rest.sh,
              open |-> rest.open \cup (IF c.open THEN {SERVERS[k].name} ELSE {})]

Available(open) == SelectSeq(SERVERS, LAMBDA s : s.name \notin open)

Names(list) == [k \in 1..Len(list) |-> list[k].name]

\* selectServerFailover putting the last configured server first
selectServerFailover_BackupFirst(sh, t, u) ==
  [sh |-> sh, open |-> {}, servers |-> <<SERVERS[Len(SERVERS)].name, SERVERS[1].name>>]

selectServerFailover(sh, t, u) ==
  LET scan == CircuitScan(sh, 1, t)
  IN  [sh |-> scan.sh, open |-> scan.open, servers |-> Names(Available(scan.open))]

selectServerWeighted(sh, t, u) ==
  LET scan == CircuitScan(sh, 1, t)
      availableServers == Available(scan.open)
      ws == [k \in 1..Len(availableServers) |->
               [n |-> availableServers[k].weight, d |-> 1]]
  IN  [sh |-> scan.sh, open |-> scan.open,
       servers |-> IF Len(availableServers) = 0
                     THEN Names(SERVERS)
                     ELSE Names(SelectedFirst(availableServers,
                                              WeightedIndex(ws, u)))]

\* selectServerSmart drawing from all servers, open circuits included
selectServerSmart_NoFilter(sh, t, u) ==
  LET scan == CircuitScan(sh, 1, t)
      ws == [k \in 1..Len(SERVERS) |-> calculateSmartWeight(sh, SERVERS[k])]
  IN  [sh |-> scan.sh, open |-> scan.open,
       servers |-> Names(SelectedFirst(SERVERS, WeightedIndex(ws, u)))]

\* calculateSmartWeight(s) is evaluated before isCircuitOpen(s), and
\* isCircuitOpen(s) changes the record of s alone: every weight is the
\* weight under the map as the request found it.
selectServerSmart(sh, t, u) ==
  LET scan == CircuitScan(sh, 1, t)
      avail == Available(scan.open)
      availableServers == IF Len(avail) = 0 THEN SERVERS ELSE avail
      ws == [k \in 1..Len(availableServers) |->
               calculateSmartWeight(sh, availableServers[k])]
  IN  [sh |-> scan.sh, open |-> scan.open,
       servers |-> Names(SelectedFirst(availableServers, WeightedIndex(ws, u)))]

selectServers(m, sh, t, u) ==
  CASE m = "weighted" -> selectServerWeighted(sh, t, u)
    [] m = "smart"    -> selectServerSmart(sh, t, u)
    [] OTHER          -> selectServerFailover(sh, t, u)


----------------------------------------------------------------------------
(* Requests *)

NoResult == [kind |-> "none", status |-> 0, servedBy |-> ""]

\* the response labelled with the first configured server, whoever answered
Served_ByFirst(status, server) ==
  [kind |-> "backend", status |-> status, servedBy |-> SERVERS[1].name]

\* a backend's response, returned to the caller
Served(status, server) == [kind |-> "backend", status |-> status, servedBy |-> server]

\* new Response(..., {status: 503}) / {status: 404}: made by the worker
Synthetic(status) == [kind |-> "synthetic", status |-> status, servedBy |-> ""]

\* the handler's promise rejects: the exception reaches the caller
Thrown == [kind |-> "throw", status |-> 0, servedBy |-> ""]

\* pc: "idle" no request in the slot; "call" awaiting an outbound call;
\*     "done" the handler has returned (the value of last)
\* servers, idx, i: the candidate list, the candidate and the retry being tried
\* log: the servers called so far, in order (one entry per outbound call)
\* timed: the call in flight is armed with a timer
\* openAtSel: the servers isCircuitOpen returned true for at selection
\* blockedAtSel: the servers inside their reset window at selection
\* lapsedAtSel: the servers whose down-mark had expired at arrival
\* afterThree: at arrival the primary had FAILURE_THRESHOLD failures in a row
\*             recorded, the last less than CIRCUIT_RESET_TIME ago
\* aborted: the caller has aborted the request
Idle ==
  [pc |-> "idle", host |-> <<>>, ws |-> FALSE, hasBody |-> FALSE, aborted |-> FALSE,
   servers |-> <<>>, idx |-> 0, i |-> 0, startTime |-> 0, callStart |-> 0,
   timed |-> FALSE, log |-> <<>>, result |-> NoResult,
   openAtSel |-> {}, blockedAtSel |-> {}, lapsedAtSel |-> {}, afterThree |-> FALSE]

Range(seq) == {seq[k] : k \in 1..Len(seq)}

\* the handler returns: what is kept of the request
Returned(q, result) ==
  [q EXCEPT !.pc = "done", !.result = result, !.idx = 0, !.i = 0,
            !.startTime = 0, !.callStart = 0, !.timed = FALSE,
            !.blockedAtSel = {}, !.lapsedAtSel = {}]

HasFreeSlot == \E r \in Slots : req[r].pc = "idle"

\* slots are interchangeable: a request takes the first free one
FreeSlot == CHOOSE r \in Slots : req[r].pc = "idle" /\ \A o \in Slots : req[o].pc = "idle" => r <= o

\* req and last after the request in slot r has run to q
Park(r, q) ==
  IF q.pc = "done"
    THEN /\ req' = [req EXCEPT ![r] = Idle]
         /\ last' = q
    ELSE /\ req' = [req EXCEPT ![r] = q]
         /\ last' = Idle

----------------------------------------------------------------------------
(* load-balancer.js: tryServer and the handler's loop *)

\* The handler from the point where tryServer(servers[idx]) is at iteration i
\* of its retry loop, run to its next await or to its return.  A request
\* body is a stream: once a fetch has taken it, a later fetch with the same
\* body rejects at once, which the loop's catch swallows.
\* failed: the servers recordFailure was called for on the way.
RECURSIVE LBRun(_, _, _, _, _)
LBRun(sh, q, idx, i, t) ==
  IF idx > Len(q.servers)
    THEN [sh |-> sh, failed |-> {}, q |-> Returned(q, Synthetic(503))]
    ELSE IF i > RETRIES
      THEN LET rest == LBRun(recordFailure(sh, q.servers[idx], t), q, idx + 1, 0, t)
           IN  [rest EXCEPT !.failed = @ \cup {q.servers[idx]}]
      ELSE IF q.hasBody /\ q.log # <<>>
        THEN LBRun(sh, q, idx, i + 1, t)
        ELSE [sh |-> sh, failed |-> {},
              q |-> [q EXCEPT !.pc = "call", !.idx = idx, !.i = i,
                              !.startTime = IF i = 0 THEN t ELSE @,
                              !.callStart = t, !.timed = TRUE,
                              !.log = Append(@, q.servers[idx])]]

\* the server whose tryServer this step entered with a call, if any
Dispatched(q0, q1) ==
  IF q1.pc = "call" /\ (q0.pc # "call" \/ q0.idx # q1.idx)
    THEN {q1.servers[q1.idx]} ELSE {}

\* the history variables after a step of load-balancer.js:
\* transitioned half-opened, succeeded got recordSuccess, failed recordFailure,
\* dispatched got a request; sh1 is the map after the step
LBHistory(transitioned, succeeded, failed, dispatched, sh1) ==
  /\ failRun' = [s \in ServerNames |->
                   IF s \in succeeded THEN 0
                   ELSE IF s \in failed THEN failRun[s] + 1 ELSE failRun[s]]
  /\ UNCHANGED <<lastOp, runAtSuccess>>
  /\ halfOpen' = [s \in ServerNames |->
                    IF s \in succeeded \cup failed THEN FALSE
                    ELSE IF s \in transitioned THEN TRUE ELSE halfOpen[s]]
  /\ probes' = [s \in ServerNames |->
                  IF s \in succeeded \cup failed THEN 0
                  ELSE (IF s \in transitioned THEN 0 ELSE probes[s])
                       + (IF s \in dispatched /\ halfOpen'[s] THEN 1 ELSE 0)]
  /\ blockedUntil' = [s \in ServerNames |->
                        IF s \in failed /\ sh1[s].circuitOpen
                          THEN sh1[s].lastFailure + CIRCUIT_RESET_TIME
                          ELSE blockedUntil[s]]

\* what Math.random() is drawn from under mode m (failover draws nothing)
Draws(m) == IF m = "failover" THEN {0} ELSE 0..(DrawSteps - 1)

\* fetch(request): selectServers(), then tryServer on the first candidate up
\* to its first outbound call
LBFetch(body) ==
  /\ variant = "lb"
  /\ HasFreeSlot
  /\ arrivals < MaxArrivals
  /\ \E sel \in {selectServers(mode, serverHealth, now, u) : u \in Draws(mode)} :
     \E q0 \in {[Idle EXCEPT
                   !.hasBody = body, !.servers = sel.servers,
                   !.openAtSel = sel.open,
                   !.blockedAtSel = {s \in ServerNames : now < blockedUntil[s]},
                   !.afterThree =
                      /\ failRun["primary"] >= FAILURE_THRESHOLD
                      /\ now - serverHealth["primary"].lastFailure < CIRCUIT_RESET_TIME]} :
     \E run \in {LBRun(sel.sh, q0, 1, 0, now)} :
       /\ serverHealth' = run.sh
       /\ Park(FreeSlot, run.q)
       /\ LBHistory({s \in ServerNames :
                       serverHealth[s].circuitOpen /\ ~sel.sh[s].circuitOpen},
                    {}, run.failed, Dispatched(q0, run.q), run.sh)
  /\ arrivals' = arrivals + 1
  /\ UNCHANGED <<variant, mode, now, healthCache, applied, timers>>

\* tryServer's loop going round without counting the iteration
LBAfterFailure_SameIteration(r, q) ==
  \E run \in {LBRun(serverHealth, q, q.idx, q.i, now)} :
    /\ serverHealth' = run.sh
    /\ Park(r, run.q)
    /\ LBHistory({}, {}, run.failed, Dispatched(q, run.q), run.sh)

\* the rest of tryServer and of the handler's loop after the call in flight
\* has failed (a status >= 500, a rejection)
LBAfterFailure(r, q) ==
  \E run \in {LBRun(serverHealth, q, q.idx, q.i + 1, now)} :
    /\ serverHealth' = run.sh
    /\ Park(r, run.q)
    /\ LBHistory({}, {}, run.failed, Dispatched(q, run.q), run.sh)

\* the awaited fetch resolves with a response of this status
LBResponse(r, status) ==
  /\ variant = "lb"
  /\ req[r].pc = "call"
  /\ \E q \in {req[r]} :
       IF status < 500
         THEN \E sh1 \in {recordSuccess(serverHealth, q.servers[q.idx], now - q.startTime)} :
                /\ serverHealth' = sh1
                /\ Park(r, Returned(q, Served(status, q.servers[q.idx])))
                /\ LBHistory({}, {q.servers[q.idx]}, {}, {}, sh1)
         ELSE LBAfterFailure(r, q)
  /\ UNCHANGED <<variant, mode, now, arrivals, healthCache, applied, timers>>

\* the awaited fetch rejects: the connection failed
LBNetworkError(r) ==
  /\ variant = "lb"
  /\ req[r].pc = "call"
  /\ LBAfterFailure(r, req[r])
  /\ UNCHANGED <<variant, mode, now, arrivals, healthCache, applied, timers>>

\* the timer of fetchWithTimeout fires: controller.abort() rejects the fetch
LBTimeout(r) ==
  /\ variant = "lb"
  /\ req[r].pc = "call"
  /\ now - req[r].callStart >= CONFIG_TIMEOUT
  /\ LBAfterFailure(r, req[r])
  /\ UNCHANGED <<variant, mode, now, arrivals, healthCache, applied, timers>>

----------------------------------------------------------------------------
(* worker.js (part_000) and the older multi-app worker (part_001) *)

\* tryServer looping once more than RETRIES allows
RECURSIVE TryRun_ExtraRetry(_, _, _, _, _)
TryRun_ExtraRetry(q, idx, i, t, retries) ==
  IF idx > Len(q.servers)
    THEN Returned(q, Synthetic(503))
    ELSE IF i > retries + 1
      THEN TryRun_ExtraRetry(q, idx + 1, 0, t, retries)
      ELSE [q EXCEPT !.pc = "call", !.idx = idx, !.i = i,
                     !.callStart = t, !.timed = TRUE,
                     !.log = Append(@, q.servers[idx])]

\* tryServer of both files, from iteration i of its loop on servers[idx], run
\* to the next await or to the handler's return; retries is the file's RETRIES
RECURSIVE TryRun(_, _, _, _, _)
TryRun(q, idx, i, t, retries) ==
  IF idx > Len(q.servers)
    THEN Returned(q, Synthetic(503))
    ELSE IF i > retries
      THEN TryRun(q, idx + 1, 0, t, retries)
      ELSE IF q.hasBody /\ q.log # <<>>
        THEN TryRun(q, idx, i + 1, t, retries)
        ELSE [q EXCEPT !.pc = "call", !.idx = idx, !.i = i,
                       !.startTime = IF i = 0 THEN t ELSE @,
                       !.callStart = t, !.timed = TRUE,
                       !.log = Append(@, q.servers[idx])]

\* these files keep no state between requests
Stateless ==
  UNCHANGED <<variant, mode, now, serverHealth, healthCache,
              failRun, lastOp, runAtSuccess, halfOpen, probes, blockedUntil, applied, timers>>

\* fetch(request) of worker.js
WorkerFetch(body) ==
  /\ variant = "worker"
  /\ HasFreeSlot
  /\ arrivals < MaxArrivals
  /\ Park(FreeSlot, TryRun([Idle EXCEPT !.hasBody = body,
                                        !.servers = <<"primary", "backup">>],
                           1, 0, now, WORKER_RETRIES))
  /\ arrivals' = arrivals + 1
  /\ Stateless

WorkerResponse(r, status) ==
  /\ variant = "worker"
  /\ req[r].pc = "call"
  /\ \E q \in {req[r]} :
       Park(r, IF status < 500
                 THEN Returned(q, Served(status, q.servers[q.idx]))
                 ELSE TryRun(q, q.idx, q.i + 1, now, WORKER_RETRIES))
  /\ UNCHANGED arrivals
  /\ Stateless

WorkerNetworkError(r) ==
  /\ variant = "worker"
  /\ req[r].pc = "call"
  /\ Park(r, TryRun(req[r], req[r].idx, req[r].i + 1, now, WORKER_RETRIES))
  /\ UNCHANGED arrivals
  /\ Stateless

WorkerTimeout(r) ==
  /\ variant = "worker"
  /\ req[r].pc = "call"
  /\ now - req[r].callStart >= WORKER_TIMEOUT
  /\ Park(r, TryRun(req[r], req[r].idx, req[r].i + 1, now, WORKER_RETRIES))
  /\ UNCHANGED arrivals
  /\ Stateless

\* A hostname is the sequence of its labels.  APPS of part_001:
OLD_APPS ==
  (<<"terminal", "eqtrader", "app">> :>
      [primary |-> "terminal-primary.equidity.app", backup |-> "terminal-failover.equidity.app"])
  @@ (<<"admin", "eqtrader", "app">> :>
      [primary |-> "admin-primary.equidity.app", backup |-> "admin-failover.equidity.app"])
  @@ (<<"api", "eqtrader", "app">> :>
      [primary |-> "api-primary.equidity.app", backup |-> "api-failover.equidity.app"])
  @@ (<<"socket", "eqcore", "app">> :>
      [primary |-> "eqcore-socket.primary.equidity.app", backup |-> "eqcore-socket.failover.equidity.app"])
  @@ (<<"api", "eqcore", "app">> :>
      [primary |-> "eqcore-api.primary.equidity.app", backup |-> "eqcore-api.failover.equidity.app"])

\* APPS is a plain object: a name inherited from Object.prototype is found
\* too, and its value (a function) has no primary and no backup
PrototypeKeys == {<<"constructor">>, <<"toString">>, <<"valueOf">>, <<"hasOwnProperty">>}

NoConfig == [primary |-> "", backup |-> ""]

InheritedConfig == [primary |-> "undefined", backup |-> "undefined"]

\* APPS[host]
OldLookup(host) ==
  IF host \in DOMAIN OLD_APPS THEN OLD_APPS[host]
  ELSE IF host \in PrototypeKeys THEN InheritedConfig
  ELSE NoConfig

\* the hostnames requests come for
OldHosts == {<<"api", "eqtrader", "app">>, <<"shop", "example", "com">>, <<"constructor">>}

\* what a request is: its hostname, whether it asks for a WebSocket upgrade
\* (an upgrade is a GET: it has no body), whether it has a body
RequestKinds(hosts) ==
  {k \in [host : hosts, ws : BOOLEAN, hasBody : BOOLEAN] : ~(k.ws /\ k.hasBody)}

\* the statuses a call may be answered with: 101 only to an upgrade; at
\* https://undefined nobody answers
Answers(q) ==
  IF q.servers[q.idx] = InheritedConfig.primary THEN {}
  ELSE IF q.ws THEN Statuses \cup {101}
  ELSE Statuses

\* handleWebSocket after the primary did not give a 101: return fetch(backupUrl, request)
OldWebSocketBackup(q) ==
  [q EXCEPT !.pc = "call", !.idx = 2, !.callStart = now, !.timed = FALSE,
            !.log = Append(@, q.servers[2])]

\* fetch(request) of part_001
OldFetch(k) ==
  /\ variant = "multiold"
  /\ HasFreeSlot
  /\ arrivals < MaxArrivals
  /\ \E config \in {OldLookup(k.host)} :
     \E q0 \in {[Idle EXCEPT !.host = k.host, !.ws = k.ws, !.hasBody = k.hasBody,
                             !.servers = IF config = NoConfig THEN <<>>
                                         ELSE <<config.primary, config.backup>>]} :
       Park(FreeSlot,
            IF config = NoConfig THEN Returned(q0, Synthetic(404))
            ELSE IF k.ws
              THEN [q0 EXCEPT !.pc = "call", !.idx = 1, !.startTime = now,
                              !.callStart = now, !.timed = FALSE,
                              !.log = <<config.primary>>]
              ELSE TryRun(q0, 1, 0, now, OLD_RETRIES))
  /\ arrivals' = arrivals + 1
  /\ Stateless

OldResponse(r, status) ==
  /\ variant = "multiold"
  /\ req[r].pc = "call"
  /\ status \in Answers(req[r])
  /\ \E q \in {req[r]} :
       Park(r, IF q.ws
                 THEN IF q.idx = 2 \/ status = 101
                        THEN Returned(q, Served(status, q.servers[q.idx]))
                        ELSE OldWebSocketBackup(q)
                 ELSE IF status < 500
                        THEN Returned(q, Served(status, q.servers[q.idx]))
                        ELSE TryRun(q, q.idx, q.i + 1, now, OLD_RETRIES))
  /\ UNCHANGED arrivals
  /\ Stateless

\* the awaited fetch rejects; the backup's fetch of handleWebSocket is
\* returned as it is, so its rejection is the handler's
OldNetworkError(r) ==
  /\ variant = "multiold"
  /\ req[r].pc = "call"
  /\ \E q \in {req[r]} :
       Park(r, IF q.ws
                 THEN IF q.idx = 2 THEN Returned(q, Thrown) ELSE OldWebSocketBackup(q)
                 ELSE TryRun(q, q.idx, q.i + 1, now, OLD_RETRIES))
  /\ UNCHANGED arrivals
  /\ Stateless

OldTimeout(r) ==
  /\ variant = "multiold"
  /\ req[r].pc = "call"
  /\ req[r].timed
  /\ now - req[r].callStart >= OLD_TIMEOUT
  /\ Park(r, TryRun(req[r], req[r].idx, req[r].i + 1, now, OLD_RETRIES))
  /\ UNCHANGED arrivals
  /\ Stateless

----------------------------------------------------------------------------
(* multi-app-config.js *)

APPS ==
  (<<"terminal", "eqtrader", "app">> :>
      [primary |-> "eqtrader-terminal.primary.equidity.app", backup |-> "eqtrader-terminal.failover.equidity.app"])
  @@ (<<"admin", "eqtrader", "app">> :>
      [primary |-> "admin-primary.equidity.app", backup |-> "admin-failover.equidity.app"])
  @@ (<<"api", "eqtrader", "app">> :>
      [primary |-> "api-primary.equidity.app", backup |-> "api-failover.equidity.app"])
  @@ (<<"socket", "eqcore", "app">> :>
      [primary |-> "eqcore-socket.primary.equidity.app", backup |-> "eqcore-socket.failover.equidity.app"])
  @@ (<<"api", "eqcore", "app">> :>
      [primary |-> "eqcore-api.primary.equidity.app", backup |-> "eqcore-api.failover.equidity.app"])
  @@ (<<"admin", "eqcore", "app">> :>
      [primary |-> "eqcore-admin.primary.equidity.app", backup |-> "eqcore-admin.failover.equidity.app"])

TERMINAL_CONFIG ==
  [domain |-> <<"eqtrader", "app">>,
   primary |-> "eqtrader-terminal.primary.equidity.app",
   backup |-> "eqtrader-terminal.failover.equidity.app"]

WHITE_LABEL_CONFIG ==
  [domain |-> <<"equidity", "cloud">>,
   primary |-> "eqcore-client.primary.equidity.app",
   backup |-> "eqcore-client.failover.equidity.app"]

\* host.endsWith('.' + domain)
EndsWithDot(host, domain) ==
  /\ Len(host) > Len(domain)
  /\ SubSeq(host, Len(host) - Len(domain) + 1, Len(host)) = domain

\* getConfig(host): every path returns a config
getConfig(host) ==
  IF host \in DOMAIN APPS THEN APPS[host]
  ELSE IF host \in PrototypeKeys THEN InheritedConfig
  ELSE IF EndsWithDot(host, TERMINAL_CONFIG.domain)
    THEN [primary |-> TERMINAL_CONFIG.primary, backup |-> TERMINAL_CONFIG.backup]
  ELSE IF EndsWithDot(host, WHITE_LABEL_CONFIG.domain) \/ host = WHITE_LABEL_CONFIG.domain
    THEN [primary |-> WHITE_LABEL_CONFIG.primary, backup |-> WHITE_LABEL_CONFIG.backup]
  ELSE [primary |-> WHITE_LABEL_CONFIG.primary, backup |-> WHITE_LABEL_CONFIG.backup]

\* healthCache maps a server to [isDown, expiry]; its DOMAIN is the Map's keys
CacheDelete(hc, server) == [s \in (DOMAIN hc) \ {server} |-> hc[s]]

\* isServerMarkedDown ignoring the cache
isServerMarkedDown_Never(hc, server, t) == [down |-> FALSE, hc |-> hc]

\* the value returned (down) and the cache as the call leaves it (hc)
isServerMarkedDown(hc, server, t) ==
  IF server \notin DOMAIN hc
    THEN [down |-> FALSE, hc |-> hc]
    ELSE IF t > hc[server].expiry
      THEN [down |-> FALSE, hc |-> CacheDelete(hc, server)]
      ELSE [down |-> hc[server].isDown, hc |-> hc]

markServerDown(hc, server, t) ==
  [s \in (DOMAIN hc) \cup {server} |->
     IF s = server THEN [isDown |-> TRUE, expiry |-> t + HEALTH_CACHE_TTL * 1000]
     ELSE hc[s]]

markServerUp(hc, server) == CacheDelete(hc, server)

\* The handler's three attempts are tryServer on servers = <<primary, backup,
\* primary>>, the third with skipHealthCheck.  From the entry of attempt idx,
\* run to the next await or to the return.
RECURSIVE MARun(_, _, _, _)
MARun(hc, q, idx, t) ==
  IF idx > Len(q.servers)
    THEN [hc |-> hc, q |-> Returned(q, Synthetic(503))]
    ELSE LET marked == IF idx < Len(q.servers)
                         THEN isServerMarkedDown(hc, q.servers[idx], t)
                         ELSE [down |-> FALSE, hc |-> hc]
         IN  IF marked.down
               THEN MARun(marked.hc, q, idx + 1, t)
               ELSE [hc |-> marked.hc,
                     q |-> [q EXCEPT !.pc = "call", !.idx = idx,
                                     !.startTime = t, !.callStart = t, !.timed = TRUE,
                                     !.log = Append(@, q.servers[idx])]]

\* handleWebSocket from its start: the primary unless it is marked down
MAWebSocket(hc, q, t) ==
  LET marked == isServerMarkedDown(hc, q.servers[1], t)
  IN  [hc |-> marked.hc,
       q |-> IF marked.down
               THEN [q EXCEPT !.pc = "call", !.idx = 2, !.callStart = t,
                              !.timed = FALSE, !.log = Append(@, q.servers[2])]
               ELSE [q EXCEPT !.pc = "call", !.idx = 1, !.callStart = t,
                              !.timed = TRUE, !.log = Append(@, q.servers[1])]]

\* handleWebSocket's plain fetch of the backup
MAWebSocketBackup(q, t) ==
  [q EXCEPT !.pc = "call", !.idx = 2, !.callStart = t, !.timed = FALSE,
            !.log = Append(@, q.servers[2])]

MAUnchanged ==
  UNCHANGED <<variant, mode, now, serverHealth,
              failRun, lastOp, runAtSuccess, halfOpen, probes, blockedUntil, applied, timers>>

\* the hostnames requests come for: an app, a broker subdomain, a custom domain
MAHosts == {<<"api", "eqtrader", "app">>, <<"shop", "example", "com">>}

\* fetch(request) up to its first await
MAFetch(k) ==
  /\ variant = "multi"
  /\ HasFreeSlot
  /\ arrivals < MaxCacheArrivals
  /\ \E config \in {getConfig(k.host)} :
     \E q0 \in {[Idle EXCEPT
                   !.host = k.host, !.ws = k.ws, !.hasBody = k.hasBody,
                   !.servers = IF config = NoConfig THEN <<>>
                               ELSE IF k.ws THEN <<config.primary, config.backup>>
                               ELSE <<config.primary, config.backup, config.primary>>,
                   !.blockedAtSel = {s \in DOMAIN healthCache : now < healthCache[s].expiry},
                   !.lapsedAtSel = {s \in DOMAIN healthCache : now > healthCache[s].expiry}]} :
     \E run \in {IF config = NoConfig
                   THEN [hc |-> healthCache, q |-> Returned(q0, Synthetic(404))]
                 ELSE IF k.ws THEN MAWebSocket(healthCache, q0, now)
                 ELSE IF k.hasBody THEN [hc |-> healthCache, q |-> [q0 EXCEPT !.pc = "body"]]
                 ELSE MARun(healthCache, q0, 1, now)} :
       /\ healthCache' = run.hc
       /\ Park(FreeSlot, run.q)
  /\ arrivals' = arrivals + 1
  /\ MAUnchanged

\* await request.arrayBuffer() resolves
MABodyRead(r) ==
  /\ variant = "multi"
  /\ req[r].pc = "body"
  /\ \E run \in {MARun(healthCache, req[r], 1, now)} :
       /\ healthCache' = run.hc
       /\ Park(r, run.q)
  /\ UNCHANGED arrivals
  /\ MAUnchanged

\* the awaited call resolves with a response of this status
MAResponse(r, status) ==
  /\ variant = "multi"
  /\ req[r].pc = "call"
  /\ status \in Answers(req[r])
  /\ \E q \in {req[r]} :
     \E server \in {q.servers[q.idx]} :
     \E run \in {IF q.ws
                   THEN IF q.idx = 2 \/ status = 101
                          THEN [hc |-> markServerUp(healthCache, server),
                                q |-> Returned(q, Served(status, server))]
                          ELSE [hc |-> healthCache, q |-> MAWebSocketBackup(q, now)]
                   ELSE IF status < 500
                          THEN [hc |-> markServerUp(healthCache, server),
                                q |-> Returned(q, Served(status, server))]
                          ELSE MARun(markServerDown(markServerUp(healthCache, server), server, now),
                                     q, q.idx + 1, now)} :
       /\ healthCache' = run.hc
       /\ Park(r, run.q)
  /\ UNCHANGED arrivals
  /\ MAUnchanged

\* the call in flight has failed: tryServer's catch, handleWebSocket's catches
MAFailed(r) ==
  \E q \in {req[r]} :
  \E hc1 \in {markServerDown(healthCache, q.servers[q.idx], now)} :
  \E run \in {IF q.ws
                THEN IF q.idx = 2
                       THEN [hc |-> hc1, q |-> Returned(q, Thrown)]
                       ELSE [hc |-> hc1, q |-> MAWebSocketBackup(q, now)]
                ELSE MARun(hc1, q, q.idx + 1, now)} :
    /\ healthCache' = run.hc
    /\ Park(r, run.q)

\* the awaited fetch rejects: the connection failed
MANetworkError(r) ==
  /\ variant = "multi"
  /\ req[r].pc = "call"
  /\ MAFailed(r)
  /\ UNCHANGED arrivals
  /\ MAUnchanged

\* the timer of fetchWithTimeout fires first: the race rejects
MATimeout(r) ==
  /\ variant = "multi"
  /\ req[r].pc = "call"
  /\ req[r].timed
  /\ now - req[r].callStart >= TIMEOUT
  /\ MAFailed(r)
  /\ UNCHANGED arrivals
  /\ MAUnchanged

----------------------------------------------------------------------------
(* The clock *)

\* a timer that is due fires before the clock moves on
TimeoutOf(v) ==
  CASE v = "worker" -> WORKER_TIMEOUT
    [] v = "multi" -> TIMEOUT
    [] v = "multiold" -> OLD_TIMEOUT
    [] OTHER -> CONFIG_TIMEOUT

TimerDue(q) == q.pc = "call" /\ q.timed /\ now - q.callStart >= TimeoutOf(variant)

Tick ==
  /\ now < MaxTicks * TickMs
  /\ \A r \in Slots : ~TimerDue(req[r])
  /\ now' = now + TickMs
  /\ last' = Idle
  /\ UNCHANGED <<variant, mode, arrivals, serverHealth, healthCache, req,
                 failRun, lastOp, runAtSuccess, halfOpen, probes, blockedUntil, applied, timers>>

----------------------------------------------------------------------------
(* Specifications *)

\* failures a server's record may hold from earlier traffic, its circuit closed
PriorFailures == {0, FAILURE_THRESHOLD - 1}

\* no function applied on its own: the step is a handler's
NotApplied == [op |-> "none"]

\* fetchWithTimeout not called on its own
NoCall ==
  [file |-> "none", fetch |-> "none", timer |-> "none", armedAt |-> 0,
   aborted |-> FALSE, settled |-> "none", abortedAfter |-> FALSE]

NoTimers == [r \in Slots |-> NoCall]

InitCommon ==
  /\ now = 0
  /\ arrivals = 0
  /\ healthCache = <<>>
  /\ req = [r \in Slots |-> Idle]
  /\ last = Idle
  /\ lastOp = [s \in ServerNames |-> "none"]
  /\ runAtSuccess = [s \in ServerNames |-> 0]
  /\ halfOpen = [s \in ServerNames |-> FALSE]
  /\ probes = [s \in ServerNames |-> 0]
  /\ blockedUntil = [s \in ServerNames |-> 0]
  /\ applied = NotApplied
  /\ timers = NoTimers

\* load-balancer.js after some traffic at time 0: every circuit closed, each
\* server with fewer than FAILURE_THRESHOLD failures in a row and no success
InitLB ==
  /\ variant = "lb"
  /\ mode \in Modes
  /\ \E f \in [ServerNames -> PriorFailures] :
       /\ serverHealth = [s \in ServerNames |-> [getServerHealth EXCEPT !.failures = f[s]]]
       /\ failRun = f
  /\ InitCommon

NextLB ==
  \/ \E body \in BOOLEAN : LBFetch(body)
  \/ \E r \in Slots, status \in Statuses : LBResponse(r, status)
  \/ \E r \in Slots : LBNetworkError(r)
  \/ \E r \in Slots : LBTimeout(r)
  \/ Tick

SpecLB == InitLB /\ [][NextLB]_vars

NoHealth ==
  /\ serverHealth = [s \in ServerNames |-> getServerHealth]
  /\ failRun = [s \in ServerNames |-> 0]

InitWorker ==
  /\ variant = "worker"
  /\ mode = "failover"
  /\ NoHealth
  /\ InitCommon

NextWorker ==
  \/ \E body \in BOOLEAN : WorkerFetch(body)
  \/ \E r \in Slots, status \in Statuses : WorkerResponse(r, status)
  \/ \E r \in Slots : WorkerNetworkError(r)
  \/ \E r \in Slots : WorkerTimeout(r)
  \/ Tick

SpecWorker == InitWorker /\ [][NextWorker]_vars

InitOld ==
  /\ variant = "multiold"
  /\ mode = "failover"
  /\ NoHealth
  /\ InitCommon

NextOld ==
  \/ \E k \in RequestKinds(OldHosts) : OldFetch(k)
  \/ \E r \in Slots, status \in Statuses \cup {101} : OldResponse(r, status)
  \/ \E r \in Slots : OldNetworkError(r)
  \/ \E r \in Slots : OldTimeout(r)
  \/ Tick

SpecOld == InitOld /\ [][NextOld]_vars

\* multi-app-config.js after some traffic at time 0: the servers of one app
\* may be marked down, the mark half a TTL old
InitMA ==
  /\ variant = "multi"
  /\ mode = "failover"
  /\ NoHealth
  /\ now = 0
  /\ arrivals = 0
  /\ \E host \in MAHosts :
     \E down \in SUBSET {getConfig(host).primary, getConfig(host).backup} :
       healthCache = [s \in down |-> [isDown |-> TRUE, expiry |-> TickMs]]
  /\ req = [r \in Slots |-> Idle]
  /\ last = Idle
  /\ lastOp = [s \in ServerNames |-> "none"]
  /\ runAtSuccess = [s \in ServerNames |-> 0]
  /\ halfOpen = [s \in ServerNames |-> FALSE]
  /\ probes = [s \in ServerNames |-> 0]
  /\ blockedUntil = [s \in ServerNames |-> 0]
  /\ applied = NotApplied
  /\ timers = NoTimers

NextMA ==
  \/ \E k \in RequestKinds(MAHosts) : MAFetch(k)
  \/ \E r \in Slots : MABodyRead(r)
  \/ \E r \in Slots, status \in Statuses \cup {101} : MAResponse(r, status)
  \/ \E r \in Slots : MANetworkError(r)
  \/ \E r \in Slots : MATimeout(r)
  \/ Tick

SpecMA == InitMA /\ [][NextMA]_vars

\* any of the four programs
Init == InitLB \/ InitWorker \/ InitOld \/ InitMA

Next ==
  \/ \E body \in BOOLEAN : LBFetch(body)
  \/ \E r \in Slots, status \in Statuses : LBResponse(r, status)
  \/ \E r \in Slots : LBNetworkError(r)
  \/ \E r \in Slots : LBTimeout(r)
  \/ \E body \in BOOLEAN : WorkerFetch(body)
  \/ \E r \in Slots, status \in Statuses : WorkerResponse(r, status)
  \/ \E r \in Slots : WorkerNetworkError(r)
  \/ \E r \in Slots : WorkerTimeout(r)
  \/ \E k \in RequestKinds(OldHosts) : OldFetch(k)
  \/ \E r \in Slots, status \in Statuses \cup {101} : OldResponse(r, status)
  \/ \E r \in Slots : OldNetworkError(r)
  \/ \E r \in Slots : OldTimeout(r)
  \/ \E k \in RequestKinds(MAHosts) : MAFetch(k)
  \/ \E r \in Slots : MABodyRead(r)
  \/ \E r \in Slots, status \in Statuses \cup {101} : MAResponse(r, status)
  \/ \E r \in Slots : MANetworkError(r)
  \/ \E r \in Slots : MATimeout(r)
  \/ Tick

Spec == Init /\ [][Next]_vars

----------------------------------------------------------------------------
(* load-balancer.js: the health store's operations, called in any order *)

\* response times recordSuccess is given
ResponseTimes == {SLOW_THRESHOLD + SLOW_THRESHOLD}

StoreUnchanged == UNCHANGED <<variant, mode, arrivals, healthCache, req, last,
                              halfOpen, probes, blockedUntil, applied, timers>>

StoreRecordSuccess(s, responseTime) ==
  /\ variant = "store"
  /\ serverHealth[s].requestCount < MaxSamples
  /\ serverHealth' = recordSuccess(serverHealth, s, responseTime)
  /\ failRun' = [failRun EXCEPT ![s] = 0]
  /\ runAtSuccess' = [runAtSuccess EXCEPT ![s] = failRun[s]]
  /\ lastOp' = [lastOp EXCEPT ![s] = "recordSuccess"]
  /\ now' = now
  /\ StoreUnchanged

StoreRecordFailure(s) ==
  /\ variant = "store"
  /\ serverHealth[s].failures < MaxFailures
  /\ serverHealth' = recordFailure(serverHealth, s, now)
  /\ failRun' = [failRun EXCEPT ![s] = @ + 1]
  /\ lastOp' = [lastOp EXCEPT ![s] = "recordFailure"]
  /\ now' = now
  /\ UNCHANGED runAtSuccess
  /\ StoreUnchanged

\* the selector's check; it writes the record only on the half-open transition
StoreIsCircuitOpen(s) ==
  /\ variant = "store"
  /\ \E c \in {isCircuitOpen(serverHealth, s, now)} :
       /\ serverHealth' = c.sh
       /\ lastOp' = [lastOp EXCEPT ![s] = IF c.sh # serverHealth THEN "halfOpen" ELSE @]
  /\ now' = now
  /\ UNCHANGED <<failRun, runAtSuccess>>
  /\ StoreUnchanged

InitStore ==
  /\ variant = "store"
  /\ mode = "smart"
  /\ serverHealth = [s \in ServerNames |-> getServerHealth]
  /\ failRun = [s \in ServerNames |-> 0]
  /\ InitCommon

NextStore ==
  \/ \E s \in ServerNames, rt \in ResponseTimes : StoreRecordSuccess(s, rt)
  \/ \E s \in ServerNames : StoreRecordFailure(s)
  \/ \E s \in ServerNames : StoreIsCircuitOpen(s)
  \/ Tick

SpecStore == InitStore /\ [][NextStore]_vars

----------------------------------------------------------------------------
(* load-balancer.js: the selector and the weight, applied on their own *)

\* average response times a record may hold: none taken or 0 ms, at the slow
\* threshold, just above it, three times it
AvgTimes == {0, SLOW_THRESHOLD, SLOW_THRESHOLD + 1, 3 * SLOW_THRESHOLD}

\* failures in a row a record may hold: none, one, one short of the
\* threshold (as the half-open transition leaves it), the threshold, more
FailureCounts == {0, 1, FAILURE_THRESHOLD - 1, FAILURE_THRESHOLD, FAILURE_THRESHOLD + 1}

\* The records recordSuccess, recordFailure and isCircuitOpen can leave at
\* time t: the circuit is open exactly when failures >= FAILURE_THRESHOLD
\* (recordFailure opens it there, recordSuccess and the half-open transition
\* close it below), a record with no sample has average 0, no failure is
\* later than t, and a record never written has lastFailure 0.
HealthRecords(t) ==
  {h \in [failures : FailureCounts, lastFailure : {0, TickMs},
          avgResponseTime : AvgTimes, requestCount : {0, 1},
          circuitOpen : BOOLEAN] :
     /\ h.circuitOpen = (h.failures >= FAILURE_THRESHOLD)
     /\ h.requestCount = 0 => h.avgResponseTime = 0
     /\ h.lastFailure <= t
     /\ (h.failures = 0 /\ h.requestCount = 0) => h.lastFailure = 0}

\* base weights a server may be configured with
BaseWeights == 0..100

PureUnchanged == UNCHANGED <<variant, mode, now, arrivals, healthCache, req, last,
                             failRun, lastOp, runAtSuccess, halfOpen, probes,
                             blockedUntil, timers>>

\* calculateSmartWeight(server) for a server of the given name and base weight
ApplyWeight(k, weight) ==
  /\ variant = "weight"
  /\ \E server \in {[SERVERS[k] EXCEPT !.weight = weight]} :
       applied' = [op |-> "calculateSmartWeight",
                   server |-> server,
                   health |-> serverHealth[server.name],
                   weight |-> calculateSmartWeight(serverHealth, server)]
  /\ UNCHANGED serverHealth
  /\ PureUnchanged

\* one server's record drawn from the records the store can hold
InitWeight ==
  /\ variant = "weight"
  /\ mode = "smart"
  /\ \E s \in ServerNames, h \in HealthRecords(0) :
       serverHealth = [x \in ServerNames |-> IF x = s THEN h ELSE getServerHealth]
  /\ failRun = [s \in ServerNames |-> 0]
  /\ InitCommon

NextWeight ==
  \E k \in 1..Len(SERVERS), weight \in BaseWeights : ApplyWeight(k, weight)

SpecWeight == InitWeight /\ [][NextWeight]_vars

\* selectServers() under CONFIG.MODE = mode with Math.random() = u / DrawSteps
ApplySelect(u) ==
  /\ variant = "select"
  /\ \E sel \in {selectServers(mode, serverHealth, now, u)} :
       /\ applied' = [op |-> "selectServers", before |-> serverHealth, u |-> u,
                      open |-> sel.open, servers |-> sel.servers]
       /\ serverHealth' = sel.sh
  /\ PureUnchanged

\* every policy, every record of every server, at each clock value
InitSelect ==
  /\ variant = "select"
  /\ mode \in Modes
  /\ now \in {k * TickMs : k \in 0..MaxTicks}
  /\ serverHealth \in [ServerNames -> HealthRecords(now)]
  /\ arrivals = 0
  /\ healthCache = <<>>
  /\ req = [r \in Slots |-> Idle]
  /\ last = Idle
  /\ failRun = [s \in ServerNames |-> 0]
  /\ lastOp = [s \in ServerNames |-> "none"]
  /\ runAtSuccess = [s \in ServerNames |-> 0]
  /\ halfOpen = [s \in ServerNames |-> FALSE]
  /\ probes = [s \in ServerNames |-> 0]
  /\ blockedUntil = [s \in ServerNames |-> 0]
  /\ applied = NotApplied
  /\ timers = NoTimers

NextSelect ==
  \E u \in Draws(mode) : ApplySelect(u)

SpecSelect == InitSelect /\ [][NextSelect]_vars

----------------------------------------------------------------------------
(* load-balancer.js: the weighted draw, applied on its own *)

\* servers in a list the draw is made over
MaxServers == 3

\* weights a server may be configured with: none, and the 70/30 split
DrawWeights == {0, 30, 70}

\* the lists of weights of the eligible servers, in configured order
WeightLists ==
  UNION {[1..n -> DrawWeights] : n \in 1..MaxServers}

\* The draw of selectServerWeighted over servers 1..Len(weights) with these
\* weights and Math.random() = u / DrawSteps: the list it returns.
ApplyDraw(weights, u) ==
  /\ variant = "draw"
  /\ \E ws \in {[k \in 1..Len(weights) |-> [n |-> weights[k], d |-> 1]]} :
       applied' = [op |-> "weightedDraw", weights |-> weights, u |-> u,
                   servers |-> SelectedFirst([k \in 1..Len(weights) |-> k],
                                             WeightedIndex(ws, u))]
  /\ UNCHANGED serverHealth
  /\ PureUnchanged

InitDraw ==
  /\ variant = "draw"
  /\ mode = "weighted"
  /\ serverHealth = [s \in ServerNames |-> getServerHealth]
  /\ failRun = [s \in ServerNames |-> 0]
  /\ InitCommon

NextDraw ==
  \E weights \in WeightLists, u \in 0..(DrawSteps - 1) : ApplyDraw(weights, u)

SpecDraw == InitDraw /\ [][NextDraw]_vars

----------------------------------------------------------------------------
(* load-balancer.js: a server that has recovered *)

\* the server that has recovered: the last configured one
Recovered == SERVERS[Len(SERVERS)].name

\* the server the request in slot r awaits a call to
Called(r) == req[r].servers[req[r].idx]

\* The recovered server answers every call made to it with a status below
\* 500: none of its calls gets a 5xx, fails to connect or times out.  The
\* other servers answer as they will.
RecoveryResponse(r, status) ==
  /\ req[r].pc = "call"
  /\ Called(r) = Recovered => status < 500
  /\ LBResponse(r, status)

RecoveryNetworkError(r) ==
  /\ req[r].pc = "call"
  /\ Called(r) # Recovered
  /\ LBNetworkError(r)

RecoveryTimeout(r) ==
  /\ req[r].pc = "call"
  /\ Called(r) # Recovered
  /\ LBTimeout(r)

\* The circuit of the recovered server is open, on FAILURE_THRESHOLD failures
\* the last of which was recorded at time 0; the circuit of every other
\* server is closed with no failure, or open likewise.
InitRecovery ==
  /\ variant = "lb"
  /\ mode \in Modes
  /\ \E open \in {o \in SUBSET ServerNames : Recovered \in o} :
       /\ serverHealth = [s \in ServerNames |->
                            IF s \in open
                              THEN [getServerHealth EXCEPT !.failures = FAILURE_THRESHOLD,
                                                           !.circuitOpen = TRUE]
                              ELSE getServerHealth]
       /\ failRun = [s \in ServerNames |-> serverHealth[s].failures]
       /\ blockedUntil = [s \in ServerNames |->
                            IF s \in open THEN CIRCUIT_RESET_TIME ELSE 0]
  /\ now = 0
  /\ arrivals = 0
  /\ healthCache = <<>>
  /\ req = [r \in Slots |-> Idle]
  /\ last = Idle
  /\ lastOp = [s \in ServerNames |-> "none"]
  /\ runAtSuccess = [s \in ServerNames |-> 0]
  /\ halfOpen = [s \in ServerNames |-> FALSE]
  /\ probes = [s \in ServerNames |-> 0]
  /\ applied = NotApplied
  /\ timers = NoTimers

NextRecovery ==
  \/ \E body \in BOOLEAN : LBFetch(body)
  \/ \E r \in Slots, status \in Statuses : RecoveryResponse(r, status)
  \/ \E r \in Slots : RecoveryNetworkError(r)
  \/ \E r \in Slots : RecoveryTimeout(r)
  \/ Tick

\* Time keeps advancing, requests keep arriving, and every call settles (a
\* call of load-balancer.js is answered, fails or is aborted by its timer).
SpecRecovery ==
  /\ InitRecovery
  /\ [][NextRecovery]_vars
  /\ WF_vars(Tick)
  /\ WF_vars(\E body \in BOOLEAN : LBFetch(body))
  /\ \A r \in Slots :
       WF_vars(\/ \E status \in Statuses : RecoveryResponse(r, status)
               \/ RecoveryNetworkError(r)
               \/ RecoveryTimeout(r))

----------------------------------------------------------------------------
(* fetchWithTimeout, called on its own *)

\* the files that define fetchWithTimeout
Files == {"lb", "worker", "multiold", "multi"}

\* load-balancer.js, part_000 and part_001 await the fetch inside try/catch
\* and call clearTimeout on both paths; multi-app-config.js races the fetch
\* against a promise its timer rejects, and keeps no handle of the timer
ClearsTimer(file) == file # "multi"

\* the call up to its await: a controller, a timer, the fetch begun
fetchWithTimeout(file, t) ==
  [file |-> file, fetch |-> "pending", timer |-> "armed", armedAt |-> t,
   aborted |-> FALSE, settled |-> "pending", abortedAfter |-> FALSE]

TimersUnchanged ==
  UNCHANGED <<variant, mode, arrivals, serverHealth, healthCache, req, last,
              failRun, lastOp, runAtSuccess, halfOpen, probes, blockedUntil, applied>>

\* a slot is taken while its call is awaited or its timer is pending
FwtCall(r, file) ==
  /\ variant = "timeout"
  /\ timers[r].settled # "pending"
  /\ timers[r].timer # "armed"
  /\ timers' = [timers EXCEPT ![r] = fetchWithTimeout(file, now)]
  /\ UNCHANGED now
  /\ TimersUnchanged

\* the fetch settles before the timer fires: with a response (outcome
\* "resolved") or with a network error (outcome "rejected")
FwtSettle(r, outcome) ==
  /\ variant = "timeout"
  /\ timers[r].fetch = "pending"
  /\ timers' = [timers EXCEPT ![r].fetch = outcome, ![r].settled = outcome,
                              ![r].timer = IF ClearsTimer(timers[r].file)
                                             THEN "cleared" ELSE @]
  /\ UNCHANGED now
  /\ TimersUnchanged

\* the timer's callback runs: controller.abort(), which rejects a fetch still
\* pending, and with it the call
FwtTimer(r) ==
  /\ variant = "timeout"
  /\ timers[r].timer = "armed"
  /\ now - timers[r].armedAt >= TimeoutOf(timers[r].file)
  /\ timers' = [timers EXCEPT
                  ![r].timer = "fired",
                  ![r].aborted = TRUE,
                  ![r].abortedAfter = (timers[r].settled # "pending"),
                  ![r].fetch = IF @ = "pending" THEN "rejected" ELSE @,
                  ![r].settled = IF @ = "pending" THEN "rejected" ELSE @]
  /\ UNCHANGED now
  /\ TimersUnchanged

\* a timer that is due fires before the clock moves on
FwtTick ==
  /\ variant = "timeout"
  /\ now < MaxTicks * TickMs
  /\ \A r \in Slots :
       ~(timers[r].timer = "armed" /\ now - timers[r].armedAt >= TimeoutOf(timers[r].file))
  /\ now' = now + TickMs
  /\ UNCHANGED timers
  /\ TimersUnchanged

InitTimeout ==
  /\ variant = "timeout"
  /\ mode = "failover"
  /\ serverHealth = [s \in ServerNames |-> getServerHealth]
  /\ failRun = [s \in ServerNames |-> 0]
  /\ InitCommon

NextTimeout ==
  \/ \E r \in Slots, file \in Files : FwtCall(r, file)
  \/ \E r \in Slots, outcome \in {"resolved", "rejected"} : FwtSettle(r, outcome)
  \/ \E r \in Slots : FwtTimer(r)
  \/ FwtTick

SpecTimeout == InitTimeout /\ [][NextTimeout]_vars

----------------------------------------------------------------------------
(* load-balancer.js, multi-app-config.js: the caller aborts its request *)

\* The caller gives up while an outbound call is awaited.  Neither handler
\* reads request.signal or registers a listener on it, and the only signal a
\* fetch is given is that of the controller fetchWithTimeout creates, which
\* its timer alone aborts: no code of the worker runs.
CallerAbort(r) ==
  /\ variant \in {"lb", "multi"}
  /\ req[r].pc = "call"
  /\ ~req[r].aborted
  /\ req' = [req EXCEPT ![r].aborted = TRUE]
  /\ last' = Idle
  /\ UNCHANGED <<variant, mode, now, arrivals, serverHealth, healthCache,
                 failRun, lastOp, runAtSuccess, halfOpen, probes, blockedUntil,
                 applied, timers>>

\* the platform may end the invocation of a request whose caller has gone:
\* the handler is not resumed, its call in flight is dropped
InvocationEnded(r) ==
  /\ variant \in {"lb", "multi"}
  /\ req[r].pc = "call"
  /\ req[r].aborted
  /\ req' = [req EXCEPT ![r] = Idle]
  /\ last' = Idle
  /\ UNCHANGED <<variant, mode, now, arrivals, serverHealth, healthCache,
                 failRun, lastOp, runAtSuccess, halfOpen, probes, blockedUntil,
                 applied, timers>>

\* either worker as deployed, before any traffic
InitAbort ==
  \/ InitLB /\ mode = "failover" /\ failRun = [s \in ServerNames |-> 0]
  \/ InitMA /\ healthCache = <<>>

NextAbort ==
  \/ NextLB
  \/ NextMA
  \/ \E r \in Slots : CallerAbort(r)
  \/ \E r \in Slots : InvocationEnded(r)

SpecAbort == InitAbort /\ [][NextAbort]_vars

----------------------------------------------------------------------------
(* Properties *)

\* C1: once FAILURE_THRESHOLD recordFailure calls in a row (no recordSuccess
\* between them) have been made for a server, its circuit is open when the
\* last of them returns; and a recordSuccess that follows such a run leaves
\* failures = 0 and the circuit closed.
C1_ThresholdOpensSuccessResets ==
  \A s \in ServerNames :
    /\ (lastOp[s] = "recordFailure" /\ failRun[s] >= FAILURE_THRESHOLD)
         => serverHealth[s].circuitOpen
    /\ (lastOp[s] = "recordSuccess" /\ runAtSuccess[s] >= FAILURE_THRESHOLD)
         => (serverHealth[s].failures = 0 /\ ~serverHealth[s].circuitOpen)

\* a recordSuccess has followed FAILURE_THRESHOLD or more failures in a row
C1_Witness ==
  \E s \in ServerNames :
    lastOp[s] = "recordSuccess" /\ runAtSuccess[s] >= FAILURE_THRESHOLD

\* C2: in every state of the health store, an open circuit has at least
\* FAILURE_THRESHOLD failures counted.
C2_OpenImpliesThreshold ==
  \A s \in ServerNames :
    serverHealth[s].circuitOpen => serverHealth[s].failures >= FAILURE_THRESHOLD

\* a circuit that half-opened (its count set back) and was opened again
C2_Witness ==
  \E s \in ServerNames :
    /\ serverHealth[s].circuitOpen
    /\ failRun[s] > serverHealth[s].failures

\* the requests in flight and the one that has just returned
Requests == {q \in {req[r] : r \in Slots} \cup {last} : q.pc # "idle"}

\* C3: a server inside its reset window (its circuit has opened, and less
\* than CIRCUIT_RESET_TIME has passed since the failure that opened it) is in
\* no request's candidate list unless isCircuitOpen returned true for every
\* other server at that selection.
C3_OpenCircuitExcluded ==
  \A q \in Requests :
    \A s \in q.blockedAtSel \cap Range(q.servers) :
      (ServerNames \ {s}) \subseteq q.openAtSel

\* C4: between a server's half-open transition and the next recordSuccess or
\* recordFailure for it, at most one request is dispatched to it.
C4_SingleProbe ==
  \A s \in ServerNames : halfOpen[s] => probes[s] <= 1

\* C5 as claimed: a request that arrives after FAILURE_THRESHOLD failures in
\* a row on the primary, inside the reset window, finds the primary's circuit
\* open, never calls the primary, and is served by nobody but the backup.
C5_FourthRequestSkipsPrimary ==
  \A q \in Requests :
    q.afterThree =>
      /\ "primary" \in q.openAtSel
      /\ "primary" \notin Range(q.log)
      /\ q.pc = "call" => q.servers[q.idx] = "backup"
      /\ (q.pc = "done" /\ q.result.kind = "backend") => q.result.servedBy = "backup"

\* C5: the same, for the requests that found the backup's circuit not open
\* at selection.
C5_FourthRequestSkipsPrimaryBackupClosed ==
  \A q \in Requests :
    (q.afterThree /\ "backup" \notin q.openAtSel) =>
      /\ "primary" \in q.openAtSel
      /\ "primary" \notin Range(q.log)
      /\ q.servers = <<"backup">>
      /\ q.pc = "call" => q.servers[q.idx] = "backup"
      /\ (q.pc = "done" /\ q.result.kind = "backend") => q.result.servedBy = "backup"

\* such a request has been answered by the backup with a status below 500
C5_Witness ==
  /\ last.pc = "done"
  /\ last.afterThree
  /\ "backup" \notin last.openAtSel
  /\ last.result.kind = "backend"
  /\ last.result.status < 500
  /\ last.result.servedBy = "backup"

\* the down-mark of server s is present and has not expired at time t
MarkedDown(hc, s, t) == s \in DOMAIN hc /\ hc[s].isDown /\ t <= hc[s].expiry

\* attempt j of request q consults the down-cache: the first two tryServer
\* calls of an HTTP request, the primary of a WebSocket upgrade
HealthChecked(q, j) == IF q.ws THEN j = 1 ELSE j < Len(q.servers)

\* C6 as claimed: a request that arrives while a server's down-mark is younger
\* than HEALTH_CACHE_TTL makes no outbound call to that server; a request
\* that arrives after the mark of its primary has expired calls the primary.
C6_MarkedDownNotCalled ==
  variant = "multi" =>
    \A q \in Requests :
      /\ \A s \in q.blockedAtSel : s \notin Range(q.log)
      /\ (q.pc = "call" /\ q.servers[1] \in q.lapsedAtSel) => q.log[1] = q.servers[1]

\* C6: an attempt that consults the down-cache makes its call exactly when
\* the server's mark is absent or expired at that moment (now > expiry): a
\* step that dispatches such an attempt finds the server not marked down, and
\* every attempt the step passes over without a call is to a server that is.
C6_HealthCheckedAttempts ==
  [][variant = "multi" =>
       \A r \in Slots :
         LET q0 == req[r]
             q1 == req'[r]
             from == IF q0.pc = "call" THEN q0.idx ELSE 0
         IN  (q1.pc = "call" /\ q1.log # q0.log) =>
               /\ HealthChecked(q1, q1.idx)
                    => ~MarkedDown(healthCache, q1.servers[q1.idx], now)
               /\ \A j \in (from + 1)..(q1.idx - 1) :
                    MarkedDown(healthCache, q1.servers[j], now)]_vars

\* an HTTP request has passed over its marked-down primary and called the
\* backup, and the mark is at the very end of its life
C6_Witness ==
  /\ variant = "multi"
  /\ \E r \in Slots :
       /\ req[r].pc = "call"
       /\ ~req[r].ws
       /\ req[r].log = <<req[r].servers[2]>>
       /\ MarkedDown(healthCache, req[r].servers[1], now)
       /\ healthCache[req[r].servers[1]].expiry = now

\* the calls a request makes to one candidate, by the file's configuration
ConfiguredCalls(v) ==
  CASE v = "lb" -> 1 + RETRIES
    [] v = "worker" -> 1 + WORKER_RETRIES
    [] v = "multiold" -> 1 + OLD_RETRIES
    [] OTHER -> 1

CallsTo(q, s) == Cardinality({k \in 1..Len(q.log) : q.log[k] = s})

\* both candidates of q are one and the same host
SameHost(q) == Len(q.servers) >= 2 /\ q.servers[1] = q.servers[2]

\* the handler has returned something other than a backend's answer below 500
Unserved(q) ==
  q.pc = "done" /\ ~(q.result.kind = "backend" /\ q.result.status < 500)

\* C7 as claimed: no request makes more calls to a server than one plus the
\* configured retries, nor more than twice that in all, every call under a
\* timer; and a request nobody served ends with the synthetic 503.
C7_ConfiguredCallsOnly ==
  \A q \in Requests :
    /\ \A s \in Range(q.log) :
         ~SameHost(q) => CallsTo(q, s) <= ConfiguredCalls(variant)
    /\ Len(q.log) <= 2 * ConfiguredCalls(variant)
    /\ q.pc = "call" => q.timed
    /\ (Unserved(q) /\ q.log # <<>>) => q.result = Synthetic(503)

\* the attempts of a request that go to server s
AttemptsOn(q, s) == Cardinality({j \in 1..Len(q.servers) : q.servers[j] = s})

\* C7: a plain HTTP request makes at most 1 + RETRIES calls in each attempt,
\* each under a timer, and when nobody serves it it ends with the synthetic
\* 503; its attempts are one per candidate, and in multi-app-config.js one
\* more on the primary after the backup's.  A WebSocket upgrade makes at most
\* one call to each server.
C7_CallsPerAttempt ==
  \A q \in Requests :
    LET perAttempt == IF q.ws THEN 1 ELSE ConfiguredCalls(variant)
    IN  /\ \A s \in Range(q.log) :
             ~SameHost(q) => CallsTo(q, s) <= AttemptsOn(q, s) * perAttempt
        /\ Len(q.log) <= Len(q.servers) * perAttempt
        /\ Len(q.servers) <= IF variant = "multi" /\ ~q.ws THEN 3 ELSE 2
        /\ (q.pc = "call" /\ ~q.ws) => q.timed
        /\ (Unserved(q) /\ ~q.ws /\ q.log # <<>>) => q.result = Synthetic(503)

\* multi-app-config.js has given the 503 after three calls: primary, backup,
\* primary
C7_Witness ==
  /\ variant = "multi"
  /\ last.pc = "done"
  /\ last.result = Synthetic(503)
  /\ Len(last.log) = 3
  /\ last.log[1] = last.log[3]

\* C8: every request the handler has finished with got a response, never an
\* exception, and the response is a backend's answer below 500 (or the 101 of
\* an upgrade) or a synthetic one.
C8_AlwaysAResponse ==
  \A q \in Requests :
    q.pc = "done" =>
      /\ q.result.kind # "throw"
      /\ q.result.kind = "backend" => q.result.status < 500

\* host matches an app of multi-app-config.js: a key of APPS, a subdomain of
\* the terminal domain, the white-label domain or a subdomain of it
ConfiguredHost(host) ==
  \/ host \in DOMAIN APPS
  \/ EndsWithDot(host, TERMINAL_CONFIG.domain)
  \/ EndsWithDot(host, WHITE_LABEL_CONFIG.domain)
  \/ host = WHITE_LABEL_CONFIG.domain

\* C9: a request for a hostname that matches no app makes no outbound call
\* and is answered with the synthetic 404.
C9_UnconfiguredHostNotFound ==
  \A q \in Requests :
    /\ (variant = "multi" /\ ~ConfiguredHost(q.host))
         => (q.log = <<>> /\ (q.pc = "done" => q.result = Synthetic(404)))
    /\ (variant = "multiold" /\ q.host \notin DOMAIN OLD_APPS)
         => (q.log = <<>> /\ (q.pc = "done" => q.result = Synthetic(404)))

\* the programs that run the failover policy
FailoverProgram == (variant = "lb" /\ mode = "failover") \/ variant = "worker"

\* C10: under the failover policy the candidates are in configured order and
\* tried in it, and the backup is called only when isCircuitOpen returned
\* true for the primary at selection or the request's first call went to the
\* primary (whose attempt has then failed).
C10_BackupOnlyAfterPrimary ==
  FailoverProgram =>
    \A q \in Requests :
      /\ q.servers \in {<<>>, <<"primary">>, <<"backup">>, <<"primary", "backup">>}
      /\ \A j, k \in 1..Len(q.log) :
           (j < k /\ q.log[j] = "backup") => q.log[k] = "backup"
      /\ "backup" \in Range(q.log)
           => ("primary" \in q.openAtSel \/ q.log[1] = "primary")
      /\ "primary" \in q.openAtSel => "primary" \notin Range(q.log)

\* a request that found the primary's circuit open went straight to the
\* backup and was served by it
C10_Witness ==
  /\ FailoverProgram
  /\ last.pc = "done"
  /\ last.result.servedBy = "backup"
  /\ "primary" \in last.openAtSel
  /\ last.log[1] = "backup"

\* the selector was applied in the step just taken
Selected == applied.op = "selectServers"

\* the servers isCircuitOpen answered true for in that application: open,
\* and less than CIRCUIT_RESET_TIME since the last failure
OpenAtSelect ==
  {s \in ServerNames : /\ applied.before[s].circuitOpen
                       /\ now - applied.before[s].lastFailure < CIRCUIT_RESET_TIME}

\* C11: under every policy, when the circuit of every server is open the
\* selector returns the full configured server set, so that the request
\* still has a candidate to call.
C11_AllOpenFullSet ==
  (Selected /\ OpenAtSelect = ServerNames)
    => /\ Len(applied.servers) = Len(SERVERS)
       /\ Range(applied.servers) = ServerNames

\* C12 as stated: for every policy and every health state the list the
\* selector returns holds each configured server exactly once.
C12_Permutation ==
  Selected
    => /\ Len(applied.servers) = Len(SERVERS)
       /\ \A s \in ServerNames :
            Cardinality({k \in 1..Len(applied.servers) : applied.servers[k] = s}) = 1

\* C12, amended: the list holds no server twice, and its members are the
\* servers whose circuit is not open; when every circuit is open they are all
\* the servers under weighted and smart, and none under failover.
C12_NoDuplicateOpenLeftOut ==
  Selected
    => /\ \A j, k \in 1..Len(applied.servers) :
            applied.servers[j] = applied.servers[k] => j = k
       /\ Range(applied.servers) =
            IF OpenAtSelect # ServerNames THEN ServerNames \ OpenAtSelect
            ELSE IF mode = "failover" THEN {}
            ELSE ServerNames

\* one circuit open, the other closed: the list is the closed server alone
C12_Witness ==
  /\ Selected
  /\ OpenAtSelect = {SERVERS[1].name}
  /\ applied.servers = <<SERVERS[2].name>>

\* C13: under the smart policy, for every draw, a server whose circuit is
\* open (and less than CIRCUIT_RESET_TIME since its last failure) is never
\* ordered before a server whose circuit is not; it comes first only when
\* the circuit of every server is open.
C13_OpenNeverBeforeClosed ==
  (Selected /\ mode = "smart")
    => /\ \A j, k \in 1..Len(applied.servers) :
            (j < k /\ applied.servers[j] \in OpenAtSelect)
              => applied.servers[k] \in OpenAtSelect
       /\ Len(applied.servers) > 0
       /\ applied.servers[1] \in OpenAtSelect => OpenAtSelect = ServerNames

\* smart, the first server's circuit open and the second's not, at the draw
\* (0) that falls on the first server whatever its weight: the second
\* server is first
C13_Witness ==
  /\ Selected
  /\ mode = "smart"
  /\ applied.u = 0
  /\ OpenAtSelect = {SERVERS[1].name}
  /\ applied.servers[1] = SERVERS[2].name

\* calculateSmartWeight was applied in the step just taken
Weighed == applied.op = "calculateSmartWeight"

\* C14: calculateSmartWeight returns a value within [MIN_WEIGHT, MAX_WEIGHT]
\* for every base weight in 0..100 and every health record (any average
\* response time, any failure count, circuit open or closed), and exactly
\* MIN_WEIGHT when the circuit is open.
C14_WeightWithinBounds ==
  Weighed
    => /\ applied.weight.d > 0
       /\ MIN_WEIGHT * applied.weight.d <= applied.weight.n
       /\ applied.weight.n <= MAX_WEIGHT * applied.weight.d
       /\ applied.health.circuitOpen
            => applied.weight.n = MIN_WEIGHT * applied.weight.d

\* a slow server with failures and a closed circuit whose weight lies
\* strictly between the two bounds
C14_Witness ==
  /\ Weighed
  /\ ~applied.health.circuitOpen
  /\ applied.health.failures > 0
  /\ applied.health.avgResponseTime > SLOW_THRESHOLD
  /\ MIN_WEIGHT * applied.weight.d < applied.weight.n
  /\ applied.weight.n < MAX_WEIGHT * applied.weight.d

\* the step is the handling of a backend's answer, of this status, to the
\* outbound call of the request in slot r
Answered(r, status) ==
  \/ LBResponse(r, status)
  \/ WorkerResponse(r, status)
  \/ OldResponse(r, status)
  \/ MAResponse(r, status)

\* C15: an answer with a status below 500 is returned to the caller as it is
\* and no other server is attempted for the request; failover is triggered
\* only by a transport failure or a status of 500 and above, and such an
\* answer is never the response the caller gets.
C15_FailoverOnTransportOr5xxOnly ==
  [][\A r \in Slots, status \in Statuses \cup {101} :
       Answered(r, status)
         => IF status < 500
              THEN last' = Returned(req[r], Served(status, req[r].servers[req[r].idx]))
              ELSE ~(last'.pc = "done" /\ last'.result.kind = "backend"
                                       /\ last'.result.status >= 500)]_vars

\* the position of server s in the candidate list of request q
Position(q, s) == CHOOSE k \in 1..Len(q.servers) : q.servers[k] = s

\* every request has called its candidates in the order of its list, none
\* passed over, and a request a backend served names the last server it called
InListOrder ==
  \A q \in Requests :
    /\ \A j, k \in 1..Len(q.log) :
         j < k => Position(q, q.log[j]) <= Position(q, q.log[k])
    /\ \E n \in 0..Len(q.servers) :
         Range(q.log) = {q.servers[k] : k \in 1..n}
    /\ (q.pc = "done" /\ q.result.kind = "backend")
         => /\ q.log # <<>>
            /\ q.result.servedBy = q.log[Len(q.log)]

\* C16: the candidates of a request are attempted in the order of the list
\* the selector returned, none passed over; the loop stops at the first
\* success, so no later candidate is called once a server has answered with
\* a status below 500; and the response names, in X-Served-By, the server
\* that produced it.
C16_ListOrderFirstSuccess ==
  [][/\ InListOrder'
     /\ \A r \in Slots, status \in Statuses :
          (LBResponse(r, status) /\ status < 500)
            => /\ last'.pc = "done"
               /\ last'.log = req[r].log
               /\ last'.result = Served(status, req[r].log[Len(req[r].log)])]_vars

\* a request whose first candidate failed and whose second candidate
\* answered: it is served by the second, the last server called
C16_Witness ==
  /\ variant = "lb"
  /\ last.pc = "done"
  /\ last.result.kind = "backend"
  /\ Len(last.servers) = 2
  /\ last.result.servedBy = last.servers[2]
  /\ last.log[1] = last.servers[1]

C18_HalfOpenTransition ==
  [][\A s \in ServerNames :
       /\ StoreIsCircuitOpen(s)
            => IF /\ serverHealth[s].circuitOpen
                  /\ now - serverHealth[s].lastFailure >= CIRCUIT_RESET_TIME
                 THEN /\ ~serverHealth'[s].circuitOpen
                      /\ serverHealth'[s].failures = FAILURE_THRESHOLD - 1
                      /\ lastOp'[s] = "halfOpen"
                 ELSE serverHealth' = serverHealth
       /\ (lastOp[s] = "halfOpen" /\ StoreRecordFailure(s))
            => /\ serverHealth'[s].circuitOpen
               /\ serverHealth'[s].failures = FAILURE_THRESHOLD
       /\ (lastOp[s] = "halfOpen"
             /\ \E responseTime \in ResponseTimes : StoreRecordSuccess(s, responseTime))
            => /\ ~serverHealth'[s].circuitOpen
               /\ serverHealth'[s].failures = 0]_vars

\* a circuit reopened by the one failure that followed its half-open
\* transition: the run of failures is one longer than the threshold
C18_Witness ==
  \E s \in ServerNames :
    /\ lastOp[s] = "recordFailure"
    /\ serverHealth[s].circuitOpen
    /\ serverHealth[s].failures = FAILURE_THRESHOLD
    /\ failRun[s] = FAILURE_THRESHOLD + 1

\* C19: every outbound call made for a request carries its body, the
\* same-server retry and the call to the next server included, so a request
\* with a body goes through the same calls as one without: when nobody
\* serves it, it has called every candidate 1 + RETRIES times (the workers
\* whose tryServer has the retry loop; multi-app-config.js reads the body
\* into a buffer first).
C19_BodyReplayedOnEveryCall ==
  \A q \in Requests :
    (/\ variant \in {"lb", "worker", "multiold"}
     /\ q.hasBody
     /\ q.pc = "done"
     /\ q.result = Synthetic(503)
     /\ q.servers # <<>>)
      => Len(q.log) = Len(q.servers) * ConfiguredCalls(variant)

\* C20: every outbound call, of an HTTP request and of a WebSocket upgrade,
\* is armed with the configured timeout: no request awaits a call without
\* a timer, which is a call it awaits for as long as the backend stays
\* silent.
C20_EveryCallBounded ==
  \A r \in Slots : req[r].pc = "call" => req[r].timed

\* C21: with requests in flight together and reporting outcomes for the
\* same server, no update of the breaker's state is lost.  Every
\* recordFailure raises failures by exactly one; a step that reports nothing
\* for the server and is no half-open transition leaves its count and its
\* circuit as they were; so k reports with no recordSuccess and no half-open
\* transition between them raise failures by k; and the circuit is open
\* whenever the count has reached FAILURE_THRESHOLD.
C21_NoLostUpdate ==
  [][variant = "lb" =>
       \A s \in ServerNames :
         /\ failRun'[s] > failRun[s]
              => serverHealth'[s].failures
                   = serverHealth[s].failures + (failRun'[s] - failRun[s])
         /\ (/\ failRun'[s] = failRun[s]
             /\ ~(serverHealth[s].circuitOpen /\ ~serverHealth'[s].circuitOpen))
              => /\ serverHealth'[s].failures = serverHealth[s].failures
                 /\ serverHealth'[s].circuitOpen = serverHealth[s].circuitOpen
         /\ serverHealth'[s].failures >= FAILURE_THRESHOLD
              => serverHealth'[s].circuitOpen]_vars

\* two requests in flight together have each reported a failure of the same
\* server and gone on to the next: both reports are counted and the circuit
\* is open
C21_Witness ==
  /\ variant = "lb"
  /\ \A r \in Slots :
       /\ req[r].pc = "call"
       /\ req[r].idx = 2
       /\ req[r].log[1] = SERVERS[1].name
  /\ serverHealth[SERVERS[1].name].failures = FAILURE_THRESHOLD + 1
  /\ failRun[SERVERS[1].name] = FAILURE_THRESHOLD + 1
  /\ serverHealth[SERVERS[1].name].circuitOpen

Drawn == applied.op = "weightedDraw"

\* C23: for a draw r = (u / DrawSteps) * totalWeight in [0, totalWeight), the
\* server placed first is the one whose cumulative weight range
\* [sum of the weights before it, that sum plus its weight) contains r (with
\* weights 70 and 30: the first for the draws in [0, 70), the second for
\* those in [70, 100)), and the other servers follow in their original
\* relative order.
C23_CumulativeRangeFirst ==
  Drawn =>
    LET w     == applied.weights
        total == Cumulative(w, Len(w))
        first == applied.servers[1]
    IN  /\ Len(applied.servers) = Len(w)
        /\ \A j, k \in 2..Len(w) : j < k => applied.servers[j] < applied.servers[k]
        /\ \A k \in 2..Len(w) : applied.servers[k] # first
        /\ total > 0
             => /\ Cumulative(w, first - 1) * DrawSteps <= applied.u * total
                /\ applied.u * total < Cumulative(w, first) * DrawSteps

\* C25: in every file's fetchWithTimeout, once the call has settled (its
\* response returned or its error thrown) the timer it armed is no longer
\* pending, and controller.abort() has not been called after the call settled.
C25_TimerCancelledOnSettle ==
  \A r \in Slots :
    timers[r].settled \in {"resolved", "rejected"}
      => /\ timers[r].timer # "armed"
         /\ ~timers[r].abortedAfter

\* C24: when the caller aborts a request whose outbound call is in flight,
\* the call is cancelled with the abort (the request is no longer awaiting a
\* call), and no call is made for an aborted request afterwards: no retry, no
\* next server, no bypass attempt.
C24_AbortCancelsAttempts ==
  [][\A r \in Slots :
       /\ req'[r].aborted => req'[r].pc # "call"
       /\ req[r].aborted => Len(req'[r].log) <= Len(req[r].log)]_vars

=============================================================================
